---- MODULE Spec2Model ----
(***************************************************************************)
(* The chat client of ModularChatbot: App (the host that owns the active   *)
(* conversation identifier), ChatInterface (the conversation controller:   *)
(* timeline, loading flag, POST /chat and GET /conversations/{id}) and     *)
(* MessageInput (the composer: draft text, IME flag, submit triggers).     *)
(*                                                                         *)
(* JavaScript runs every handler to completion, so one handler (up to its  *)
(* first await) is one action, and each settlement of a request (the code  *)
(* after the await) is another.  React state set in a handler is committed *)
(* before the next event is handled.                                       *)
(***************************************************************************)
EXTENDS Naturals, Integers, Sequences, FiniteSets, TLC

\* ------------------------------------------------------------------ bounds
\* Number of requests (POST /chat and GET /conversations/{id}) issued in one
\* behaviour.
MaxRequests == 3

\* --------------------------------------------------------------- constants
\* `null`, and every other falsy identifier: `if (conversationId)` and
\* `!conversationId` treat them alike.
NULL == "null"
\* The truthy conversation identifiers (conv-xxxxxxxx, or one of the list).
ConvIds == {"A", "B"}
\* App: the user identifier, fixed for the lifetime of the page.
userId == "user"
\* The sender of assistant and error messages.
botId == "bot"
\* MessageInput: the length ceiling of the draft.
maxLength == 1000
\* JavaScript's `undefined`: a field a record does not carry.
Undefined == "undefined"
\* new Date().toISOString(): the client's clock when a message is created.
clientTimestamp == "client-clock"
\* The timestamp a POST /chat response carries.
serverTimestamp == "server-clock"
\* The timestamp of a message the server stored earlier.
storedTimestamp == "stored"
\* The agent_workflow field of a message that carries none.
NoWorkflow == {}
\* The workflow of the documented response: a routing step with its decision
\* and a step without one.
SampleWorkflow ==
    << [agent |-> "RouterAgent", decision |-> "KnowledgeAgent"],
       [agent |-> "KnowledgeAgent", decision |-> Undefined] >>
\* The fixed text of the error notice.
errorText == <<"Desculpe, ocorreu um erro ao processar sua mensagem. Tente novamente.">>

VARIABLES
    conversationId,  \* App: currentConversationId, ChatInterface's prop
    messages,        \* ChatInterface: the timeline
    loading,         \* ChatInterface: the loading flag
    message,         \* MessageInput: the draft
    isComposing,     \* MessageInput: an IME composition is open
    sends,           \* POST /chat requests in flight
    fetches,         \* GET /conversations/{id} requests in flight
    nextSid,         \* identity of the next POST (issued so far: nextSid - 1)
    nextFid,         \* identity of the next GET (issued so far: nextFid - 1)
    lastOp           \* the handler or settlement that ran last

vars == <<conversationId, messages, loading, message, isComposing,
          sends, fetches, nextSid, nextFid, lastOp>>

ctrlVars == <<messages, loading, sends, nextSid>>

\* ----------------------------------------------------------------- helpers
RECURSIVE TrimStart(_)
\* String.prototype.trim, leading blanks.
TrimStart(s) ==
    IF s # <<>> /\ Head(s) = " " THEN TrimStart(Tail(s)) ELSE s

RECURSIVE TrimEnd(_)
\* String.prototype.trim, trailing blanks.
TrimEnd(s) ==
    IF s # <<>> /\ s[Len(s)] = " " THEN TrimEnd(SubSeq(s, 1, Len(s) - 1)) ELSE s

\* String.prototype.trim.
Trim(s) == TrimEnd(TrimStart(s))

\* A text of exactly maxLength characters that trimming changes: a blank
\* followed by letters.  A text is the sequence of its characters.
fullText == [i \in 1..maxLength |-> IF i = 1 THEN " " ELSE "a"]

\* The same text with one more character typed at its end.
overText == fullText \o <<"a">>

\* The texts an edit event can carry: empty, blank, one at the ceiling and
\* one over it.
Texts == {<<>>, <<" ">>, fullText, overText}

\* The number of requests issued so far.
Issued == (nextSid - 1) + (nextFid - 1)

\* The record of the handler that ran last.
Op(name, sid, cid, emitted) ==
    [op |-> name, sid |-> sid, cid |-> cid, emitted |-> emitted]

\* sendMessage: the optimistic user message.  sid names the POST it belongs to.
userMessage(messageText, cid, sid) ==
    [message |-> messageText, timestamp |-> clientTimestamp,
     user_id |-> userId, conversation_id |-> cid,
     agent_workflow |-> NoWorkflow, isError |-> FALSE, sid |-> sid]

\* sendMessage: the assistant message built from the response data.  The
\* agent_workflow field is a set: empty when the response carries none, and
\* holding the sequence of steps when it carries one.
botMessage(data, cid, sid) ==
    [message |-> data.response, timestamp |-> data.timestamp,
     user_id |-> botId, conversation_id |-> cid,
     agent_workflow |-> data.agent_workflow, isError |-> FALSE, sid |-> sid]

\* sendMessage: the error notice.
errorMessage(cid, sid) ==
    [message |-> errorText, timestamp |-> clientTimestamp,
     user_id |-> botId, conversation_id |-> cid,
     agent_workflow |-> NoWorkflow, isError |-> TRUE, sid |-> sid]

\* What GET /conversations/{cid} can answer: no messages, or one stored
\* exchange of that conversation (sid 0: not a message of this session); the
\* stored reply carries an empty workflow.
HistoryResponses(cid) ==
    { <<>>,
      << [message |-> <<"a">>, timestamp |-> storedTimestamp,
          user_id |-> userId, conversation_id |-> cid,
          agent_workflow |-> NoWorkflow, isError |-> FALSE, sid |-> 0],
         [message |-> <<"r">>, timestamp |-> storedTimestamp,
          user_id |-> botId, conversation_id |-> cid,
          agent_workflow |-> {<<>>}, isError |-> FALSE, sid |-> 0] >> }

\* What POST /chat can answer: a response text, a timestamp, a conversation
\* identifier and, optionally, a workflow.
ChatResponses ==
    [response : {<<"r">>}, timestamp : {serverTimestamp},
     conversation_id : ConvIds,
     agent_workflow : {NoWorkflow, {SampleWorkflow}}]

\* The `disabled` prop ChatInterface passes to MessageInput.
\* A step's decision is shown when it is truthy.
HasDecision(step) == step.decision # Undefined /\ step.decision # ""

\* The renderer that lists the steps last to first.
renderAgentWorkflow_reversed(workflow) ==
    IF workflow = NoWorkflow
    THEN <<>>
    ELSE LET steps == CHOOSE w \in workflow : TRUE
         IN [k \in 1..Len(steps) |->
                LET step == steps[Len(steps) + 1 - k]
                IN IF HasDecision(step)
                   THEN <<step.agent, step.decision>>
                   ELSE <<step.agent>>]

\* renderAgentWorkflow: nothing for an absent or empty workflow, otherwise
\* one entry per step, in order: the agent, then the decision if it has one.
renderAgentWorkflow(workflow) ==
    IF workflow = NoWorkflow
    THEN <<>>
    ELSE LET steps == CHOOSE w \in workflow : TRUE
         IN IF Len(steps) = 0
            THEN <<>>
            ELSE [k \in 1..Len(steps) |->
                     IF HasDecision(steps[k])
                     THEN <<steps[k].agent, steps[k].decision>>
                     ELSE <<steps[k].agent>>]

\* The message list render: the workflow block of one message.
RenderedWorkflow(m) ==
    IF m.agent_workflow = NoWorkflow
    THEN <<>>
    ELSE renderAgentWorkflow(m.agent_workflow)

ComposerDisabled == IF conversationId = NULL THEN TRUE ELSE loading

\* ------------------------------------------------------------------- Init
Init ==
    /\ conversationId = NULL
    /\ messages = <<>>
    /\ loading = FALSE
    /\ message = <<>>
    /\ isComposing = FALSE
    /\ sends = {}
    /\ fetches = {}
    /\ nextSid = 1
    /\ nextFid = 1
    /\ lastOp = Op("init", 0, NULL, FALSE)

\* ---------------------------------------------------------- ChatInterface
\* The effect that also fetches for a falsy identifier.
ConversationEffect_alwaysFetches(id) ==
    /\ fetches' = fetches \cup {[fid |-> nextFid, conversation_id |-> id]}
    /\ nextFid' = nextFid + 1
    /\ messages' = IF id # NULL THEN messages ELSE <<>>

\* useEffect[conversationId]: runs after the render that sees the new prop.
\* A truthy identifier starts fetchConversationHistory (up to its await);
\* a falsy one empties the timeline.
ConversationEffect(id) ==
    IF id # NULL
    THEN /\ fetches' = fetches \cup {[fid |-> nextFid, conversation_id |-> id]}
         /\ nextFid' = nextFid + 1
         /\ UNCHANGED messages
    ELSE /\ messages' = <<>>
         /\ UNCHANGED <<fetches, nextFid>>

\* App.setCurrentConversationId(id) from ConversationList, the re-render of
\* ChatInterface and its effect.  Setting the same identifier renders nothing.
\* id is a fresh conv-xxxxxxxx or an entry of the list the server answered,
\* which the code passes on as it is: a falsy entry (NULL) takes the branches
\* of the null identifier.
SelectConversation(id) ==
    /\ id # conversationId
    /\ conversationId' = id
    /\ ConversationEffect(id)
    /\ lastOp' = Op("select", 0, id, FALSE)
    /\ UNCHANGED <<loading, message, isComposing, sends, nextSid>>
    /\ Issued' <= MaxRequests

\* fetchConversationHistory after the await, success:
\* setMessages(response.data.messages || []).
FetchSucceeds(f, msgs) ==
    /\ f \in fetches
    /\ msgs \in HistoryResponses(f.conversation_id)
    /\ messages' = msgs
    /\ fetches' = fetches \ {f}
    /\ lastOp' = Op("fetchOk", f.fid, f.conversation_id, FALSE)
    /\ UNCHANGED <<conversationId, loading, message, isComposing, sends,
                   nextSid, nextFid>>

\* The failure path that reports the failure in the timeline.
FetchFails_showsError(f) ==
    /\ f \in fetches
    /\ messages' = <<errorMessage(f.conversation_id, 0)>>
    /\ fetches' = fetches \ {f}
    /\ lastOp' = Op("fetchFail", f.fid, f.conversation_id, FALSE)
    /\ UNCHANGED <<conversationId, loading, message, isComposing, sends,
                   nextSid, nextFid>>

\* fetchConversationHistory after the await, failure: setMessages([]).
FetchFails(f) ==
    /\ f \in fetches
    /\ messages' = <<>>
    /\ fetches' = fetches \ {f}
    /\ lastOp' = Op("fetchFail", f.fid, f.conversation_id, FALSE)
    /\ UNCHANGED <<conversationId, loading, message, isComposing, sends,
                   nextSid, nextFid>>

\* sendMessage that posts without the optimistic append.
sendMessage_noOptimisticAppend(messageText) ==
    IF Trim(messageText) = <<>>
    THEN UNCHANGED ctrlVars
    ELSE /\ UNCHANGED messages
         /\ loading' = TRUE
         /\ sends' = sends \cup {[sid |-> nextSid,
                                  conversation_id |-> conversationId,
                                  message |-> messageText]}
         /\ nextSid' = nextSid + 1

\* The handler that issues the POST without setLoading(true).
sendMessage_noLoading(messageText) ==
    IF Trim(messageText) = <<>>
    THEN UNCHANGED ctrlVars
    ELSE /\ messages' = Append(messages,
                               userMessage(messageText, conversationId, nextSid))
         /\ UNCHANGED loading
         /\ sends' = sends \cup {[sid |-> nextSid,
                                  conversation_id |-> conversationId,
                                  message |-> messageText]}
         /\ nextSid' = nextSid + 1

\* sendMessage up to its await: the early return on a blank text, the
\* optimistic append, setLoading(true) and the POST, all in one handler run.
sendMessage(messageText) ==
    IF Trim(messageText) = <<>>
    THEN UNCHANGED ctrlVars
    ELSE /\ messages' = Append(messages,
                               userMessage(messageText, conversationId, nextSid))
         /\ loading' = TRUE
         /\ sends' = sends \cup {[sid |-> nextSid,
                                  conversation_id |-> conversationId,
                                  message |-> messageText]}
         /\ nextSid' = nextSid + 1

\* App: onNewConversation={() => setCurrentConversationId(null)}: the
\* identifier it is given is dropped.
onNewConversation(id) == NULL

\* The success path that stamps the reply with the client's clock and drops
\* the workflow.
SendSucceeds_localReply(s, resp) ==
    /\ s \in sends
    /\ resp \in ChatResponses
    /\ messages' = Append(messages,
          [botMessage(resp, s.conversation_id, s.sid)
              EXCEPT !.timestamp = clientTimestamp,
                     !.agent_workflow = NoWorkflow])
    /\ loading' = FALSE
    /\ sends' = sends \ {s}
    /\ lastOp' = Op("sendOk", s.sid, resp.conversation_id, FALSE)
    /\ UNCHANGED <<conversationId, message, isComposing, fetches,
                   nextSid, nextFid>>

\* sendMessage after the await, success: append the assistant message, call
\* onNewConversation when the captured identifier was falsy, setLoading(false).
\* s.conversation_id is the identifier the handler captured when it started.
\* When onNewConversation changes the identifier to null, the effect of the
\* change empties the timeline.
SendSucceeds(s, resp) ==
    /\ s \in sends
    /\ resp \in ChatResponses
    /\ conversationId' =
          IF s.conversation_id = NULL /\ resp.conversation_id # NULL
          THEN onNewConversation(resp.conversation_id)
          ELSE conversationId
    /\ messages' =
          IF conversationId' # conversationId /\ conversationId' = NULL
          THEN <<>>
          ELSE Append(messages, botMessage(resp, s.conversation_id, s.sid))
    /\ loading' = FALSE
    /\ sends' = sends \ {s}
    /\ lastOp' = Op("sendOk", s.sid, resp.conversation_id, FALSE)
    /\ UNCHANGED <<message, isComposing, fetches, nextSid, nextFid>>

\* The failure path without its `finally`: loading stays set.
SendFails_noFinally(s) ==
    /\ s \in sends
    /\ messages' = Append(messages, errorMessage(s.conversation_id, s.sid))
    /\ sends' = sends \ {s}
    /\ lastOp' = Op("sendFail", s.sid, s.conversation_id, FALSE)
    /\ UNCHANGED <<conversationId, loading, message, isComposing, fetches,
                   nextSid, nextFid>>

\* The failure path that only logs the error: no notice is appended.
SendFails_noNotice(s) ==
    /\ s \in sends
    /\ loading' = FALSE
    /\ sends' = sends \ {s}
    /\ lastOp' = Op("sendFail", s.sid, s.conversation_id, FALSE)
    /\ UNCHANGED <<conversationId, messages, message, isComposing, fetches,
                   nextSid, nextFid>>

\* The failure path that issues the POST again.
SendFails_retries(s) ==
    /\ s \in sends
    /\ messages' = Append(messages, errorMessage(s.conversation_id, s.sid))
    /\ loading' = TRUE
    /\ sends' = (sends \ {s}) \cup {[s EXCEPT !.sid = nextSid]}
    /\ nextSid' = nextSid + 1
    /\ lastOp' = Op("sendFail", s.sid, s.conversation_id, FALSE)
    /\ UNCHANGED <<conversationId, message, isComposing, fetches, nextFid>>
    /\ Issued' <= MaxRequests

\* sendMessage after the await, failure: append the error notice,
\* setLoading(false).
SendFails(s) ==
    /\ s \in sends
    /\ messages' = Append(messages, errorMessage(s.conversation_id, s.sid))
    /\ loading' = FALSE
    /\ sends' = sends \ {s}
    /\ lastOp' = Op("sendFail", s.sid, s.conversation_id, FALSE)
    /\ UNCHANGED <<conversationId, message, isComposing, fetches,
                   nextSid, nextFid>>

\* ----------------------------------------------------------- MessageInput
\* handleSubmit without the test of `disabled`.
handleSubmit_ignoresDisabled ==
    IF Trim(message) # <<>> /\ ~isComposing
    THEN /\ sendMessage(Trim(message))
         /\ message' = <<>>
         /\ lastOp' = Op("submit", nextSid, conversationId, TRUE)
    ELSE /\ UNCHANGED <<ctrlVars, message>>
         /\ lastOp' = Op("submit", 0, conversationId, FALSE)

\* The handler that emits the draft as typed, blanks included.
handleSubmit_untrimmed ==
    IF Trim(message) # <<>> /\ ~ComposerDisabled /\ ~isComposing
    THEN /\ sendMessage(message)
         /\ message' = <<>>
         /\ lastOp' = Op("submit", nextSid, conversationId, TRUE)
    ELSE /\ UNCHANGED <<ctrlVars, message>>
         /\ lastOp' = Op("submit", 0, conversationId, FALSE)

\* The handler that does not look at the composition flag.
handleSubmit_ignoresComposing ==
    IF Trim(message) # <<>> /\ ~ComposerDisabled
    THEN /\ sendMessage(Trim(message))
         /\ message' = <<>>
         /\ lastOp' = Op("submit", nextSid, conversationId, TRUE)
    ELSE /\ UNCHANGED <<ctrlVars, message>>
         /\ lastOp' = Op("submit", 0, conversationId, FALSE)

\* The handler that clears the draft whether or not it emits.
handleSubmit_clearsAnyway ==
    IF Trim(message) # <<>> /\ ~ComposerDisabled /\ ~isComposing
    THEN /\ sendMessage(Trim(message))
         /\ message' = <<>>
         /\ lastOp' = Op("submit", nextSid, conversationId, TRUE)
    ELSE /\ UNCHANGED ctrlVars
         /\ message' = <<>>
         /\ lastOp' = Op("submit", 0, conversationId, FALSE)

\* handleSubmit: emit the trimmed draft and clear it, or do nothing.
handleSubmit ==
    IF Trim(message) # <<>> /\ ~ComposerDisabled /\ ~isComposing
    THEN /\ sendMessage(Trim(message))
         /\ message' = <<>>
         /\ lastOp' = Op("submit", nextSid, conversationId, TRUE)
    ELSE /\ UNCHANGED <<ctrlVars, message>>
         /\ lastOp' = Op("submit", 0, conversationId, FALSE)

\* The send button: handleSubmit.  The last conjunct keeps the number of
\* requests within MaxRequests.
Submit ==
    /\ handleSubmit
    /\ UNCHANGED <<conversationId, isComposing, fetches, nextFid>>
    /\ Issued' <= MaxRequests

\* The key handler that submits on Enter whatever the modifier.
handleKeyDown_ignoresShift(shiftKey) ==
    /\ handleSubmit
    /\ UNCHANGED <<conversationId, isComposing, fetches, nextFid>>
    /\ Issued' <= MaxRequests

\* handleKeyDown for the Enter key: handleSubmit unless Shift is held (the
\* line break itself arrives as an edit, through handleChange).
handleKeyDown(shiftKey) ==
    /\ IF ~shiftKey
       THEN handleSubmit
       ELSE /\ UNCHANGED <<ctrlVars, message>>
            /\ lastOp' = Op("shiftEnter", 0, conversationId, FALSE)
    /\ UNCHANGED <<conversationId, isComposing, fetches, nextFid>>
    /\ Issued' <= MaxRequests

\* The edit handler without the ceiling.
handleChange_unbounded(value) ==
    /\ value # message
    /\ message' = value
    /\ lastOp' = Op("change", 0, conversationId, FALSE)
    /\ UNCHANGED <<conversationId, messages, loading, isComposing, sends,
                   fetches, nextSid, nextFid>>

\* handleChange: the edit replaces the draft unless it is over the ceiling.
handleChange(value) ==
    /\ value # message
    /\ message' = IF Len(value) <= maxLength THEN value ELSE message
    /\ lastOp' = Op(IF Len(value) <= maxLength THEN "change" ELSE "changeRejected",
                    0, conversationId, FALSE)
    /\ UNCHANGED <<conversationId, messages, loading, isComposing, sends,
                   fetches, nextSid, nextFid>>

\* handleCompositionStart.
handleCompositionStart ==
    /\ ~isComposing
    /\ isComposing' = TRUE
    /\ lastOp' = Op("compositionStart", 0, conversationId, FALSE)
    /\ UNCHANGED <<conversationId, messages, loading, message, sends,
                   fetches, nextSid, nextFid>>

\* handleCompositionEnd.
handleCompositionEnd ==
    /\ isComposing
    /\ isComposing' = FALSE
    /\ lastOp' = Op("compositionEnd", 0, conversationId, FALSE)
    /\ UNCHANGED <<conversationId, messages, loading, message, sends,
                   fetches, nextSid, nextFid>>

\* ------------------------------------------------------------------- Next
SettleSend == \E s \in sends : (\E resp \in ChatResponses : SendSucceeds(s, resp))
                                  \/ SendFails(s)

SettleFetch == \E f \in fetches :
                  (\E msgs \in HistoryResponses(f.conversation_id) :
                        FetchSucceeds(f, msgs))
                  \/ FetchFails(f)

Next ==
    \/ \E id \in ConvIds \cup {NULL} : SelectConversation(id)
    \/ Submit
    \/ \E shiftKey \in BOOLEAN : handleKeyDown(shiftKey)
    \/ \E value \in Texts : handleChange(value)
    \/ handleCompositionStart
    \/ handleCompositionEnd
    \/ \E s \in sends : \E resp \in ChatResponses : SendSucceeds(s, resp)
    \/ \E s \in sends : SendFails(s)
    \/ \E f \in fetches : \E msgs \in HistoryResponses(f.conversation_id) :
           FetchSucceeds(f, msgs)
    \/ \E f \in fetches : FetchFails(f)

Spec == Init /\ [][Next]_vars

\* Every request issued settles: axios resolves or rejects each promise.
LiveSpec == Spec /\ WF_vars(SettleSend) /\ WF_vars(SettleFetch)


\* ================================================================ claims
\* The step is the settlement (success or failure) of the send s.
SettlesSend(s) == s \in sends /\ s \notin sends'

\* The step is the settlement (success or failure) of the history fetch f.
SettlesFetch(f) == f \in fetches /\ f \notin fetches'

\* C1: in every reachable state at most one POST /chat is in flight, and a
\* submit trigger (send button or Enter) fired while the composer is disabled
\* emits nothing and starts no request: no step taken while the composer is
\* disabled adds a request or an optimistic message.
C1_AtMostOneSend ==
    /\ [](Cardinality(sends) <= 1)
    /\ [][ComposerDisabled =>
            /\ sends' \subseteq sends
            /\ nextSid' = nextSid
            /\ (lastOp'.op = "submit" =>
                    /\ ~lastOp'.emitted
                    /\ messages' = messages
                    /\ message' = message)]_vars

\* C1, witness: a submit trigger has just fired with a draft that would be
\* sent, while the one outstanding send keeps the composer disabled.
C1_Witness ==
    /\ lastOp.op = "submit"
    /\ ~lastOp.emitted
    /\ Cardinality(sends) = 1
    /\ loading
    /\ conversationId # NULL
    /\ Trim(message) # <<>>
    /\ ~isComposing

\* C2: when a send for conversation A settles while another conversation B is
\* the active one (the identifier was changed while the send was
\* outstanding), its reply (assistant message or error notice) is not
\* appended to the timeline shown for B.
C2_NoStaleReply ==
    [][\A s \in sends :
          (/\ SettlesSend(s)
           /\ conversationId' \in ConvIds
           /\ s.conversation_id # conversationId') =>
              ~(/\ Len(messages') = Len(messages) + 1
                /\ messages'[Len(messages')].sid = s.sid)]_vars

\* C3: every message of the timeline belongs to the active conversation.
C3_TimelineOfActiveConversation ==
    \A i \in DOMAIN messages : messages[i].conversation_id = conversationId

\* C4: a switch of the active identifier to another, non-null identifier
\* clears the timeline at once: in the state right after the switch, where
\* the history fetch it issued has not settled, the timeline holds no message
\* of the previous conversation.
C4_SwitchClearsTimeline ==
    [][(conversationId' # conversationId /\ conversationId' \in ConvIds) =>
          \A i \in DOMAIN messages' :
              messages'[i].conversation_id # conversationId]_vars

\* C5: the step that dispatches a POST /chat is the step that appends its
\* optimistic user message and disables the composer, and the composer stays
\* disabled for as long as the request is in flight.
C5_OptimisticAppendWithDispatch ==
    /\ [](sends # {} => ComposerDisabled)
    /\ [][\A s \in sends' \ sends :
            /\ messages' = Append(messages,
                    userMessage(s.message, s.conversation_id, s.sid))
            /\ loading'
            /\ ComposerDisabled']_vars

\* C5, witness: a send has just been dispatched; its user message ends the
\* timeline and the composer is disabled.
C5_Witness ==
    /\ lastOp.op = "submit"
    /\ lastOp.emitted
    /\ \E s \in sends :
          /\ s.sid = lastOp.sid
          /\ messages # <<>>
          /\ messages[Len(messages)] =
                userMessage(s.message, s.conversation_id, s.sid)
    /\ ComposerDisabled

\* C6: when a send fails while its conversation is the active one, exactly
\* one error notice with the fixed text is appended after the optimistic user
\* message of that send, which is still in the timeline, unmodified and at
\* its position, and the composer is enabled again.
C6_FailureAppendsOneError ==
    [][\A s \in sends :
          (/\ SettlesSend(s)
           /\ lastOp'.op = "sendFail"
           /\ s.conversation_id = conversationId') =>
              /\ messages' = Append(messages,
                      errorMessage(s.conversation_id, s.sid))
              /\ messages'[Len(messages')].message = errorText
              /\ \E i \in DOMAIN messages :
                    /\ messages[i] =
                          userMessage(s.message, s.conversation_id, s.sid)
                    /\ messages'[i] = messages[i]
              /\ ~loading'
              /\ ~ComposerDisabled']_vars

\* C7: when a send succeeds while the active identifier is null, the active
\* identifier becomes the identifier the server returned in that response.
C7_AdoptsServerIdentifier ==
    [][\A s \in sends :
          (/\ SettlesSend(s)
           /\ lastOp'.op = "sendOk"
           /\ conversationId = NULL) =>
              conversationId' = lastOp'.cid]_vars

C9_ReplyAfterItsUserMessage ==
    conversationId # NULL =>
        \A j \in DOMAIN messages :
            (messages[j].user_id = botId /\ messages[j].sid # 0) =>
                \E i \in 1..(j - 1) :
                    /\ messages[i].sid = messages[j].sid
                    /\ messages[i].user_id = userId

\* The replies of the send numbered sid that the timeline holds.
RepliesOf(sid) ==
    {j \in DOMAIN messages : messages[j].sid = sid /\ messages[j].user_id = botId}

\* C10: each settlement is applied exactly once.  The step that settles a
\* send appends exactly one reply of that send, the assistant message on
\* success and the error notice on failure; the step that settles a history
\* fetch sets the timeline to what the fetch answered (nothing on failure);
\* a request leaves the in-flight set only by settling, a settled request
\* never comes back, and the timeline never holds two replies of one send.
C10_SettlementAppliedOnce ==
    /\ [](\A sid \in 1..(nextSid - 1) : Cardinality(RepliesOf(sid)) <= 1)
    /\ [][/\ \A s \in sends :
                SettlesSend(s) =>
                    /\ lastOp'.op \in {"sendOk", "sendFail"}
                    /\ lastOp'.sid = s.sid
                    /\ Len(messages') = Len(messages) + 1
                    /\ SubSeq(messages', 1, Len(messages)) = messages
                    /\ IF lastOp'.op = "sendOk"
                       THEN \E resp \in ChatResponses :
                               messages'[Len(messages')] =
                                   botMessage(resp, s.conversation_id, s.sid)
                       ELSE messages'[Len(messages')] =
                               errorMessage(s.conversation_id, s.sid)
          /\ \A f \in fetches :
                SettlesFetch(f) =>
                    /\ lastOp'.op \in {"fetchOk", "fetchFail"}
                    /\ lastOp'.sid = f.fid
                    /\ messages' \in HistoryResponses(f.conversation_id)
                    /\ (lastOp'.op = "fetchFail" => messages' = <<>>)
          /\ \A s \in sends' \ sends : s.sid = nextSid /\ nextSid' = nextSid + 1
          /\ \A f \in fetches' \ fetches : f.fid = nextFid /\ nextFid' = nextFid + 1
          /\ nextSid' >= nextSid /\ nextFid' >= nextFid]_vars

\* C10, witness: a history fetch and then a send have settled; the send's
\* single reply ends the timeline, after its user message.
C10_Witness ==
    /\ lastOp.op = "sendOk"
    /\ fetches = {}
    /\ nextFid > 1
    /\ Len(messages) >= 2
    /\ messages[Len(messages)].sid = lastOp.sid
    /\ messages[Len(messages)].user_id = botId
    /\ messages[Len(messages) - 1].sid = lastOp.sid
    /\ Cardinality(RepliesOf(lastOp.sid)) = 1

C12_OneFetchPerChange ==
    [][/\ (conversationId' # conversationId /\ conversationId' # NULL) =>
              /\ fetches' = fetches \cup
                    {[fid |-> nextFid, conversation_id |-> conversationId']}
              /\ Cardinality(fetches' \ fetches) = 1
              /\ nextFid' = nextFid + 1
       /\ (conversationId' # conversationId /\ conversationId' = NULL) =>
              /\ fetches' = fetches
              /\ nextFid' = nextFid
       /\ (conversationId' = conversationId) =>
              /\ fetches' \subseteq fetches
              /\ nextFid' = nextFid]_vars

\* C12, witness: the identifier has just been changed from one conversation
\* to another, and the fetch issued last is the one for the new identifier,
\* beside the earlier fetch.
C12_Witness ==
    /\ lastOp.op = "select"
    /\ conversationId \in ConvIds
    /\ nextFid = 3
    /\ [fid |-> 2, conversation_id |-> conversationId] \in fetches
    /\ \E f \in fetches : f.fid = 1 /\ f.conversation_id # conversationId

\* C13: whenever the active identifier is null the timeline is empty and the
\* composer is disabled.
C13_NullMeansEmptyAndDisabled ==
    conversationId = NULL => (messages = <<>> /\ ComposerDisabled)

\* C14: a history fetch that fails leaves an empty timeline: no error notice
\* and no other message is in it.
C14_FetchFailureEmptiesTimeline ==
    [][\A f \in fetches :
          (SettlesFetch(f) /\ lastOp'.op = "fetchFail") =>
              /\ messages' = <<>>
              /\ \A i \in DOMAIN messages' : ~messages'[i].isError]_vars

\* C14, witness: the history fetch of the active conversation has just
\* failed and the timeline is empty.
C14_Witness ==
    /\ lastOp.op = "fetchFail"
    /\ lastOp.cid = conversationId
    /\ conversationId \in ConvIds
    /\ fetches = {}
    /\ messages = <<>>

\* C15: the draft never exceeds maxLength characters; an edit whose text has
\* at most maxLength characters replaces the draft verbatim, and an edit whose
\* text is longer leaves the draft exactly as it was.
C15_DraftWithinCeiling ==
    /\ [](Len(message) <= maxLength)
    /\ [][\A value \in Texts :
             handleChange(value) =>
                 /\ Len(value) <= maxLength => message' = value
                 /\ Len(value) > maxLength => message' = message]_vars

\* C15, witness: after a submit, the draft was edited up to the ceiling and
\* the edit that types one more character has just been rejected.
C15_Witness ==
    /\ lastOp.op = "changeRejected"
    /\ Len(message) = maxLength
    /\ message = fullText
    /\ messages # <<>>

\* The three guards of a submit.
CanEmit == Trim(message) # <<>> /\ ~isComposing /\ ~ComposerDisabled

\* C16: a press of Enter without Shift, when the trimmed draft is non-empty,
\* no composition is open and the composer is not disabled, emits the trimmed
\* draft exactly once and clears the draft; when one of the three guards
\* fails the press emits nothing.
C16_EnterEmitsOnce ==
    [][handleKeyDown(FALSE) =>
          IF CanEmit
          THEN /\ nextSid' = nextSid + 1
               /\ sends' = sends \cup {[sid |-> nextSid,
                                        conversation_id |-> conversationId,
                                        message |-> Trim(message)]}
               /\ messages' = Append(messages,
                     userMessage(Trim(message), conversationId, nextSid))
               /\ message' = <<>>
          ELSE /\ nextSid' = nextSid
               /\ sends' = sends
               /\ messages' = messages]_vars

\* C16, witness: a draft of maxLength characters with a leading blank has
\* just been emitted, trimmed, and the draft is empty.
C16_Witness ==
    /\ lastOp.op = "submit"
    /\ lastOp.emitted
    /\ message = <<>>
    /\ \E s \in sends :
          /\ s.sid = lastOp.sid
          /\ s.message = Trim(fullText)
          /\ Len(s.message) = maxLength - 1

\* C17: while a composition is open no step emits a message, whatever the
\* draft; once the composition is closed a submit trigger emits when the
\* other guards hold.
C17_NoEmissionWhileComposing ==
    [][/\ isComposing => (nextSid' = nextSid /\ sends' \subseteq sends)
       /\ ((Submit \/ handleKeyDown(FALSE)) /\ ~isComposing
               /\ Trim(message) # <<>> /\ ~ComposerDisabled)
              => (nextSid' = nextSid + 1 /\ lastOp'.emitted)]_vars

\* C17, witness: a submit trigger has just been suppressed with a
\* non-blank draft and an enabled composer, because a composition is open.
C17_Witness ==
    /\ lastOp.op = "submit"
    /\ ~lastOp.emitted
    /\ isComposing
    /\ Trim(message) # <<>>
    /\ ~ComposerDisabled

\* C18: a submit trigger that does not emit (blank draft, composer disabled
\* or composition open) changes nothing: the draft is left as it was, nothing
\* is appended to the timeline and no request is issued.
C18_SuppressedSubmitIsNoOp ==
    [][((Submit \/ handleKeyDown(FALSE)) /\ ~CanEmit) =>
          UNCHANGED <<message, messages, loading, sends, nextSid, fetches,
                      nextFid, conversationId, isComposing>>]_vars

\* C18, witness: a submit trigger has just been suppressed on a draft of one
\* blank, in an enabled composer with no composition open, and the blank is
\* still the draft.
C18_Witness ==
    /\ lastOp.op = "submit"
    /\ ~lastOp.emitted
    /\ message = <<" ">>
    /\ ~isComposing
    /\ ~ComposerDisabled

\* C19: a press of Enter with Shift held never submits: nothing is emitted
\* and the draft is not cleared, whatever the draft, the composition flag and
\* the disabled flag.
C19_ShiftEnterNeverSubmits ==
    [][handleKeyDown(TRUE) =>
          UNCHANGED <<message, messages, loading, sends, nextSid>>]_vars

\* C19, witness: Enter with Shift has just been pressed in a state where
\* Enter alone would have emitted, and the draft is still there.
C19_Witness ==
    /\ lastOp.op = "shiftEnter"
    /\ CanEmit
    /\ message = fullText

\* C20: for every message of the timeline, a non-empty workflow renders as
\* its steps in their order, each with its agent and with its decision only
\* when it has one; an absent or empty workflow renders nothing.
C20_WorkflowRendering ==
    \A i \in DOMAIN messages :
        LET m == messages[i]
            r == RenderedWorkflow(m)
        IN IF m.agent_workflow = NoWorkflow \/ m.agent_workflow = {<<>>}
           THEN r = <<>>
           ELSE \A w \in m.agent_workflow :
                   /\ Len(r) = Len(w)
                   /\ \A k \in 1..Len(w) :
                         /\ r[k][1] = w[k].agent
                         /\ HasDecision(w[k]) =>
                               r[k] = <<w[k].agent, w[k].decision>>
                         /\ ~HasDecision(w[k]) => Len(r[k]) = 1

\* C20, witness: the timeline holds a stored reply with an empty workflow
\* and a reply whose two-step workflow renders as the routing step with its
\* decision followed by the answering step without one.
C20_Witness ==
    /\ \E i \in DOMAIN messages : messages[i].agent_workflow = {<<>>}
    /\ \E i \in DOMAIN messages :
          /\ messages[i].agent_workflow = {SampleWorkflow}
          /\ RenderedWorkflow(messages[i]) =
                << <<"RouterAgent", "KnowledgeAgent">>, <<"KnowledgeAgent">> >>

\* C21: when the history fetch of a conversation settles while another
\* conversation is the active one, the settlement (messages or empty list)
\* does not replace the timeline shown for the active conversation.
C21_StaleFetchIgnored ==
    [][\A f \in fetches :
          (/\ SettlesFetch(f)
           /\ conversationId \in ConvIds
           /\ f.conversation_id \in ConvIds
           /\ f.conversation_id # conversationId) =>
              messages' = messages]_vars

\* The timeline holds a message appended by a send of this session.
HoldsSentMessage == \E i \in DOMAIN messages : messages[i].sid > 0

\* C22: while the active identifier is unchanged, once the timeline holds a
\* message appended by a send it is append-only: a step keeps every message
\* of the timeline, unmodified and in the same order, as a prefix of the new
\* timeline.
C22_AppendOnlyTimeline ==
    [][(/\ conversationId' = conversationId
        /\ conversationId \in ConvIds
        /\ HoldsSentMessage) =>
           /\ Len(messages') >= Len(messages)
           /\ SubSeq(messages', 1, Len(messages)) = messages]_vars

\* C23: after the history fetch of the active conversation settles the
\* composer is enabled, also when the identifier was switched while a send
\* of the previous conversation was outstanding (no send of the active
\* conversation is in flight).
C23_IdleAfterFetchSettles ==
    [][\A f \in fetches :
          (/\ SettlesFetch(f)
           /\ conversationId \in ConvIds
           /\ f.conversation_id = conversationId
           /\ \A s \in sends : s.conversation_id # conversationId) =>
              ~ComposerDisabled']_vars

\* C24: with a non-null active identifier the composer is disabled exactly
\* while a send request is outstanding.
C24_DisabledIffSendOutstanding ==
    conversationId # NULL => (ComposerDisabled <=> sends # {})

\* C24, witness: the identifier has just been switched to another
\* conversation while a send of the previous one is in flight, and the
\* composer is disabled.
C24_Witness ==
    /\ lastOp.op = "select"
    /\ conversationId \in ConvIds
    /\ sends # {}
    /\ \A s \in sends : s.conversation_id \in ConvIds \ {conversationId}
    /\ ComposerDisabled

\* C25: while the history fetch of the active conversation is outstanding no
\* step starts a send: no optimistic message is appended and no POST is
\* issued.
C25_NoSendWhileLoadingHistory ==
    [][(/\ conversationId \in ConvIds
        /\ \E f \in fetches : f.conversation_id = conversationId) =>
           /\ nextSid' = nextSid
           /\ sends' \subseteq sends
           /\ ~(\E i \in DOMAIN messages' :
                   messages'[i].sid = nextSid)]_vars

\* C26: each emission of the input component issues exactly one POST, and no
\* other step issues one; in particular the failure of a send issues none.
C26_OnePostPerEmission ==
    [][/\ ((Submit \/ handleKeyDown(FALSE)) /\ CanEmit) =>
              /\ nextSid' = nextSid + 1
              /\ Cardinality(sends' \ sends) = 1
       /\ ~((Submit \/ handleKeyDown(FALSE)) /\ CanEmit) =>
              /\ nextSid' = nextSid
              /\ sends' \subseteq sends
       /\ \A s \in sends :
             (SettlesSend(s) /\ lastOp'.op = "sendFail") =>
                 (nextSid' = nextSid /\ sends' = sends \ {s})]_vars

\* C26, witness: two drafts were emitted and two POSTs issued; the second
\* has just failed and no request is in flight.
C26_Witness ==
    /\ lastOp.op = "sendFail"
    /\ lastOp.sid = 2
    /\ nextSid = 3
    /\ sends = {}
    /\ messages # <<>>
    /\ messages[Len(messages)].isError

====
